---------------------------- MODULE Spec2Model ----------------------------
(***************************************************************************)
(* Vanguard NIDS: the streaming loop of BackgroundProcessor                *)
(* (app/workers/background_tasks.py), the capture start/stop handlers that *)
(* spawn and stop it (app/api/routes.py) and the per-source alert rate     *)
(* limiter of AlertManager (app/services/alert_manager.py).                *)
(*                                                                         *)
(* Scheduling: process_packets is a coroutine on the asyncio event loop.   *)
(* Coroutines and request handlers interleave only at an await.  The       *)
(* variable cur names the loop task that holds the event loop (0: nobody); *)
(* a step that ends at a suspending await releases it.  asyncio.sleep      *)
(* always suspends; awaiting a broadcast may or may not suspend, so both   *)
(* outcomes are allowed.                                                   *)
(***************************************************************************)
EXTENDS Integers, Sequences, FiniteSets, TLC

(* ------------------------------ bounds -------------------------------- *)
\* loop tasks that can be alive at once (slots are reused after a loop ends)
MaxTasks == 2
\* packet records the store ever receives
MaxPackets == 2
\* data-store failures injected over a run
MaxFaults == 1
\* wall-clock minutes 0..MaxMinute
MaxMinute == 1
\* settings.MAX_ALERTS_PER_MINUTE, a configured value (default 100) taken
\* small enough for the limit to be reached
MAX_ALERTS_PER_MINUTE == 1
\* source addresses 1..MaxSources
MaxSources == 2
\* create_alert calls per source and minute made through POST /alert
MaxCalls == 3
\* items counted by the loop in the batch-level specification
MaxCount == 250
\* settings.FEATURE_WINDOW_SIZE, a configured value (default 100) taken small
\* enough for the window to overflow
FEATURE_WINDOW_SIZE == 2
\* packets the extractor appends to its window between construction or reset
\* and the end of a behaviour
MaxExtracts == 3
\* persistently failing records stored ahead of a well-formed one
MaxBacklog == 101

(* ------------------------- program constants -------------------------- *)
\* .limit(100) of the unprocessed-packet query
BatchLimit == 100
\* processed_count % 100 of the periodic metric update
MetricsEvery == 100

Tasks == 1..MaxTasks
Sources == 1..MaxSources
\* a stored record whose fields make extract_all_features raise
\* ("malformed": protocol or timestamp is NULL), whose raw_data is not JSON
\* ("badraw"), or neither ("ok")
Kinds == {"ok", "malformed", "badraw"}

VARIABLES
  is_processing,        \* BackgroundProcessor.is_processing
  processed_count,      \* BackgroundProcessor.processed_count
  is_capturing,         \* PacketCaptureService.is_capturing
  capture_pending,      \* capture_service.start_capture queued as a background task
  pc,                   \* per loop task: position in process_packets
  batch,                \* per loop task: the fetched packets (ids, fetch order)
  idx,                  \* per loop task: index of the current packet in batch
  dirty,                \* per loop task: packets whose features are set but uncommitted
  cur,                  \* the task holding the event loop, 0 when it is idle
  packets,              \* the packets table: id -> [kind, src]
  features,             \* the packets table: id -> features column is not NULL
  alert_rate_limiter,   \* AlertManager.alert_rate_limiter: src -> [minute, count]
  alert_count,          \* AlertManager.alert_count (alerts persisted)
  now,                  \* the wall-clock minute
  faults,               \* data-store failures injected so far
  metric_count,         \* metric updates published (saturating at 2)
  \* history
  detected,             \* id -> calls of detect_packet on the packet (saturating at 2)
  trace,                \* per loop task: its events on the current batch
  stopSeen,             \* per loop task: stop_processing was called since its last flag check
  alert_notes,          \* alert notifications published
  owed,                 \* the first multiple of MetricsEvery that processed_count
                        \* reached with no metric update published since (0: none)
  calls,                \* src -> create_alert calls in the current minute
  \* the detection engine
  signature_threshold,  \* HybridDetectionEngine.signature_threshold
  threshold,            \* HybridDetectionEngine.threshold (fusion threshold)
  packet,               \* the packet dict last given to detect_packet
  packet_features,      \* the dict last given to check_signatures
  sig_result,           \* what check_signatures last returned
  oracles,              \* the outcomes of the scoring oracles on the last call
  result,               \* the detection result last returned
  invoked,              \* history: the matcher and the oracles run by the last call
  call,                 \* history: the entry point of the last call
  \* the feature extractor
  packet_buffer,        \* FeatureExtractionService.packet_buffer
  flow_stats,           \* FeatureExtractionService.flow_stats: flow key -> flow
  clock,                \* datetime.now(), in time units
  feature_vector,       \* what extract_all_features last returned
  extracted,            \* history: the packets appended to the window since
                        \* construction or the last reset
  evicted,              \* history: the flow keys _cleanup_old_flows removed
  run,                  \* history: per flow key, its packets so far while
                        \* consecutive ones are less than the retention apart
  fresh,                \* history: an extractor constructed at the last reset
                        \* and given the same calls since
  op,                   \* history: the last operation on the extractor
  \* one packet through the body of the for loop
  alert,                \* the Alert that create_alert added
  packet_note           \* the data given to broadcast_packet

loopVars == <<is_processing, processed_count, is_capturing, capture_pending,
              pc, batch, idx, dirty, cur, packets, features, faults,
              metric_count, detected, trace, stopSeen, alert_notes, owed>>
alertVars == <<alert_rate_limiter, alert_count, now, calls>>
detVars == <<signature_threshold, threshold, packet, packet_features,
             sig_result, oracles, result, invoked, call>>
extVars == <<packet_buffer, flow_stats, clock, feature_vector, extracted,
             evicted, run, fresh, op>>
itemVars == <<alert, packet_note>>
vars == <<loopVars, alertVars, detVars, extVars, itemVars>>

Min(a, b) == IF a < b THEN a ELSE b

(* ----------------------------- AlertManager --------------------------- *)
\* _check_rate_limit(source_ip) at wall-clock minute `minute`:
\* [ok |-> the returned bool, lim |-> alert_rate_limiter afterwards]
CheckRateLimitOffByOne(lim, src, minute) ==
  LET lim1 == IF src \notin DOMAIN lim
              THEN lim @@ (src :> [minute |-> minute, count |-> 0])
              ELSE lim
      lim2 == IF lim1[src].minute # minute
              THEN [lim1 EXCEPT ![src] = [minute |-> minute, count |-> 0]]
              ELSE lim1
  IN  IF lim2[src].count > MAX_ALERTS_PER_MINUTE
      THEN [ok |-> FALSE, lim |-> lim2]
      ELSE [ok |-> TRUE, lim |-> [lim2 EXCEPT ![src].count = @ + 1]]

CheckRateLimitNoReset(lim, src, minute) ==
  LET lim1 == IF src \notin DOMAIN lim
              THEN lim @@ (src :> [minute |-> minute, count |-> 0])
              ELSE lim
      lim2 == IF lim1[src].minute # minute
              THEN [lim1 EXCEPT ![src].minute = minute]
              ELSE lim1
  IN  IF lim2[src].count >= MAX_ALERTS_PER_MINUTE
      THEN [ok |-> FALSE, lim |-> lim2]
      ELSE [ok |-> TRUE, lim |-> [lim2 EXCEPT ![src].count = @ + 1]]

CheckRateLimit(lim, src, minute) ==
  LET lim1 == IF src \notin DOMAIN lim
              THEN lim @@ (src :> [minute |-> minute, count |-> 0])
              ELSE lim
      lim2 == IF lim1[src].minute # minute
              THEN [lim1 EXCEPT ![src] = [minute |-> minute, count |-> 0]]
              ELSE lim1
  IN  IF lim2[src].count >= MAX_ALERTS_PER_MINUTE
      THEN [ok |-> FALSE, lim |-> lim2]
      ELSE [ok |-> TRUE, lim |-> [lim2 EXCEPT ![src].count = @ + 1]]

\* create_alert(db, detection_result, packet_id) for source src; commitFails is
\* the outcome of db.commit().  Returns "none" (rate limited), "raise" (the
\* commit raised) or "alert"
CreateAlertResult(src, commitFails) ==
  IF ~CheckRateLimit(alert_rate_limiter, src, now).ok THEN "none"
  ELSE IF commitFails THEN "raise" ELSE "alert"

CreateAlert(src, commitFails) ==
  /\ alert_rate_limiter' = CheckRateLimit(alert_rate_limiter, src, now).lim
  /\ alert_count' = IF CreateAlertResult(src, commitFails) = "alert"
                    THEN alert_count + 1 ELSE alert_count
  /\ calls' = [calls EXCEPT ![src] = @ + 1]
  /\ UNCHANGED now

\* the wall clock reaches the next minute
Tick ==
  /\ now < MaxMinute
  /\ now' = now + 1
  /\ calls' = [s \in Sources |-> 0]
  /\ UNCHANGED <<alert_rate_limiter, alert_count>>

(* ------------------------------ the store ----------------------------- *)
Ids == 1..Len(packets)

\* db.query(Packet).filter(Packet.features.is_(None)).limit(100).all(),
\* rows in primary-key order
Unprocessed ==
  LET all == SelectSeq([i \in Ids |-> i], LAMBDA i : ~features[i])
  IN  SubSeq(all, 1, Min(BatchLimit, Len(all)))

\* db.commit() of a task's session: the features it set become visible
Committed(t) == [i \in Ids |-> features[i] \/ i \in dirty[t]]

\* the capture/storage collaborator stores one unprocessed PacketRecord
StorePacket ==
  /\ Len(packets) < MaxPackets
  /\ \E k \in Kinds, s \in Sources :
       packets' = Append(packets, [kind |-> k, src |-> s])
  /\ features' = Append(features, FALSE)
  /\ detected' = Append(detected, 0)
  /\ UNCHANGED <<is_processing, processed_count, is_capturing, capture_pending,
                 pc, batch, idx, dirty, cur, faults, metric_count, trace,
                 stopSeen, alert_notes, owed>>
  /\ UNCHANGED alertVars
  /\ UNCHANGED <<detVars, extVars, itemVars>>

(* ------------------------- the request handlers ----------------------- *)
Alive(t) == pc[t] \notin {"none", "done"}
FreeSlots == {t \in Tasks : ~Alive(t)}
Lowest(S) == CHOOSE t \in S : \A u \in S : t <= u

\* POST /capture/start: rejected while capture_service.is_capturing; queues
\* capture_service.start_capture and, when processor.is_processing is false,
\* asyncio.create_task(start_background_processing())
StartCapture ==
  /\ cur = 0
  /\ ~is_capturing
  /\ capture_pending' = TRUE
  /\ IF is_processing
     THEN UNCHANGED <<pc, batch, idx, dirty, trace, stopSeen>>
     ELSE /\ FreeSlots # {}
          /\ LET t == Lowest(FreeSlots)
             IN  /\ pc' = [pc EXCEPT ![t] = "scheduled"]
                 /\ batch' = [batch EXCEPT ![t] = <<>>]
                 /\ idx' = [idx EXCEPT ![t] = 0]
                 /\ dirty' = [dirty EXCEPT ![t] = {}]
                 /\ trace' = [trace EXCEPT ![t] = <<>>]
                 /\ stopSeen' = [stopSeen EXCEPT ![t] = FALSE]
  /\ UNCHANGED <<is_processing, processed_count, is_capturing, cur, packets,
                 features, faults, metric_count, detected, alert_notes, owed>>
  /\ UNCHANGED alertVars
  /\ UNCHANGED <<detVars, extVars, itemVars>>

\* the queued PacketCaptureService.start_capture runs (in the thread pool)
CaptureBegin ==
  /\ capture_pending
  /\ capture_pending' = FALSE
  /\ is_capturing' = TRUE
  /\ UNCHANGED <<is_processing, processed_count, pc, batch, idx, dirty, cur,
                 packets, features, faults, metric_count, detected, trace,
                 stopSeen, alert_notes, owed>>
  /\ UNCHANGED alertVars
  /\ UNCHANGED <<detVars, extVars, itemVars>>

\* stop_processing()
StopProcessing ==
  /\ is_processing' = FALSE
  /\ stopSeen' = [t \in Tasks |-> stopSeen[t] \/ Alive(t)]

\* POST /capture/stop: capture_service.stop_capture() and
\* stop_background_processing()
StopCapture ==
  /\ cur = 0
  /\ is_capturing' = FALSE
  /\ StopProcessing
  /\ UNCHANGED <<processed_count, capture_pending, pc, batch, idx, dirty, cur,
                 packets, features, faults, metric_count, detected, trace,
                 alert_notes, owed>>
  /\ UNCHANGED alertVars
  /\ UNCHANGED <<detVars, extVars, itemVars>>

(* ---------------------------- process_packets ------------------------- *)
Event(e, i) == [ev |-> e, i |-> i]
Log(t, es) == trace' = [trace EXCEPT ![t] = @ \o es]

\* the loop ends: `finally` clears the flag, start_background_processing
\* closes the session
Exit(t) ==
  /\ pc' = [pc EXCEPT ![t] = "done"]
  /\ is_processing' = FALSE
  /\ dirty' = [dirty EXCEPT ![t] = {}]
  /\ cur' = 0

AdvanceEndsBatch(t) ==
  /\ cur' = t
  /\ pc' = [pc EXCEPT ![t] = "commit"]
  /\ UNCHANGED idx

\* the for loop moves to the next packet of the batch, or past the last one
Advance(t) ==
  /\ cur' = t
  /\ IF idx[t] < Len(batch[t])
     THEN /\ pc' = [pc EXCEPT ![t] = "item"]
          /\ idx' = [idx EXCEPT ![t] = @ + 1]
     ELSE /\ pc' = [pc EXCEPT ![t] = "commit"]
          /\ UNCHANGED idx

\* the task is given the event loop at the start of the coroutine or after
\* one of its sleeps: is_processing = True on entry, then the while test,
\* the query and the branch on an empty batch
FlagAtTop(t) == IF pc[t] = "scheduled" THEN TRUE ELSE is_processing

LoopStop(t) ==
  /\ ~FlagAtTop(t)
  /\ Exit(t)
  /\ UNCHANGED <<batch, idx, trace, faults>>

LoopFetchFails(t) ==
  /\ FlagAtTop(t)
  /\ faults < MaxFaults
  /\ faults' = faults + 1
  /\ Exit(t)
  /\ UNCHANGED <<batch, idx, trace>>

LoopIdle(t) ==
  /\ FlagAtTop(t)
  /\ Unprocessed = <<>>
  /\ is_processing' = TRUE
  /\ pc' = [pc EXCEPT ![t] = "sleep_idle"]
  /\ cur' = 0
  /\ UNCHANGED <<batch, idx, trace, faults, dirty>>

LoopFetch(t) ==
  /\ FlagAtTop(t)
  /\ Unprocessed # <<>>
  /\ is_processing' = TRUE
  /\ batch' = [batch EXCEPT ![t] = Unprocessed]
  /\ idx' = [idx EXCEPT ![t] = 1]
  /\ pc' = [pc EXCEPT ![t] = "item"]
  /\ trace' = [trace EXCEPT ![t] = <<>>]
  /\ cur' = t
  /\ UNCHANGED <<faults, dirty>>

LoopTop(t) ==
  /\ cur = 0
  /\ pc[t] \in {"scheduled", "sleep_idle", "sleep_yield"}
  /\ \/ LoopStop(t)
     \/ LoopFetchFails(t)
     \/ LoopIdle(t)
     \/ LoopFetch(t)
  /\ stopSeen' = [stopSeen EXCEPT ![t] = FALSE]
  /\ UNCHANGED <<processed_count, is_capturing, capture_pending, packets,
                 features, metric_count, detected, alert_notes, owed>>
  /\ UNCHANGED alertVars
  /\ UNCHANGED <<detVars, extVars, itemVars>>

Current(t) == batch[t][idx[t]]
Detect(p) == detected' = [detected EXCEPT ![p] = Min(@ + 1, 2)]

\* lines 49-66 on a record that makes extract_all_features raise:
\* detect_packet returns its error result, line 65 raises, the except logs
ItemMalformed(t) ==
  /\ packets[Current(t)].kind = "malformed"
  /\ Detect(Current(t))
  /\ Log(t, <<Event("detect_ben", idx[t]), Event("failed", idx[t])>>)
  /\ Advance(t)
  /\ UNCHANGED <<dirty, features, faults, alert_notes>>
  /\ UNCHANGED alertVars
  /\ UNCHANGED <<detVars, extVars, itemVars>>

ItemBenignSilent(t) ==
  /\ packets[Current(t)].kind # "malformed"
  /\ Detect(Current(t))
  /\ dirty' = [dirty EXCEPT ![t] = @ \cup {Current(t)}]
  /\ Log(t, <<Event("detect_ben", idx[t])>>)
  /\ pc' = [pc EXCEPT ![t] = "count"]
  /\ cur' = t
  /\ UNCHANGED <<idx, features, faults, alert_notes>>
  /\ UNCHANGED alertVars
  /\ UNCHANGED <<detVars, extVars, itemVars>>

\* lines 49-69, verdict not malicious: features set, no alert
ItemBenign(t) ==
  /\ packets[Current(t)].kind # "malformed"
  /\ Detect(Current(t))
  /\ dirty' = [dirty EXCEPT ![t] = @ \cup {Current(t)}]
  /\ Log(t, <<Event("detect_ben", idx[t])>>)
  /\ pc' = [pc EXCEPT ![t] = "packet_note"]
  /\ cur' = t
  /\ UNCHANGED <<idx, features, faults, alert_notes>>
  /\ UNCHANGED alertVars
  /\ UNCHANGED <<detVars, extVars, itemVars>>

PublishesAlertUnchecked(r) == r # "raise"

\* line 81, `if alert:` on what create_alert returned
PublishesAlert(r) == r = "alert"

\* lines 49-89, verdict malicious: create_alert, and broadcast_alert when it
\* returned an alert
ItemMalicious(t, commitFails) ==
  LET p == Current(t)
      r == CreateAlertResult(packets[p].src, commitFails)
      outcome == CASE r = "none" -> "limited"
                   [] r = "raise" -> "failed"
                   [] r = "alert" -> "persisted"
      note == IF PublishesAlert(r) THEN <<Event("alert", idx[t])>> ELSE <<>>
  IN
  /\ packets[p].kind # "malformed"
  /\ commitFails => faults < MaxFaults
  /\ Detect(p)
  /\ CreateAlert(packets[p].src, commitFails)
  /\ faults' = IF r = "raise" THEN faults + 1 ELSE faults
  /\ Log(t, <<Event("detect_mal", idx[t]), Event(outcome, idx[t])>> \o note)
  /\ alert_notes' = alert_notes + Len(note)
  \* the commit inside create_alert also commits the features set so far
  /\ IF r = "alert"
     THEN /\ features' = [i \in Ids |-> features[i] \/ i \in dirty[t] \/ i = p]
          /\ dirty' = [dirty EXCEPT ![t] = {}]
     ELSE /\ dirty' = [dirty EXCEPT ![t] = @ \cup {p}]
          /\ UNCHANGED features
  /\ IF r = "raise"
     THEN Advance(t)
     ELSE /\ pc' = [pc EXCEPT ![t] = "packet_note"]
          /\ cur' \in (IF note = <<>> THEN {t} ELSE {0, t})
          /\ UNCHANGED idx
  /\ UNCHANGED <<detVars, extVars, itemVars>>

Item(t) ==
  /\ cur = t
  /\ pc[t] = "item"
  /\ \/ ItemMalformed(t)
     \/ ItemBenign(t)
     \/ \E commitFails \in BOOLEAN : ItemMalicious(t, commitFails)
  /\ UNCHANGED <<is_processing, processed_count, is_capturing, capture_pending,
                 batch, packets, metric_count, stopSeen, owed>>

\* the task holds the event loop, or is resumed from an await that suspended
Resumes(t) == cur = t \/ cur = 0

\* broadcast_packet(data): publishes {type: "packet", data} to the observers
broadcast_packet(t) == Log(t, <<Event("packet", idx[t])>>)

PacketNoteNotAwaited(t) ==
  /\ Resumes(t)
  /\ pc[t] = "packet_note"
  /\ IF packets[Current(t)].kind = "badraw"
     THEN /\ Log(t, <<Event("failed", idx[t])>>)
          /\ Advance(t)
     ELSE /\ pc' = [pc EXCEPT ![t] = "count"]
          /\ cur' = t
          /\ UNCHANGED <<idx, trace>>
  /\ UNCHANGED <<is_processing, processed_count, is_capturing, capture_pending,
                 batch, dirty, packets, features, faults, metric_count,
                 detected, stopSeen, alert_notes, owed>>
  /\ UNCHANGED alertVars
  /\ UNCHANGED <<detVars, extVars, itemVars>>

\* lines 91-104: the per-packet notification; json.loads(packet.raw_data)
\* raises on a record whose raw_data is not JSON
PacketNote(t) ==
  /\ Resumes(t)
  /\ pc[t] = "packet_note"
  /\ IF packets[Current(t)].kind = "badraw"
     THEN /\ Log(t, <<Event("failed", idx[t])>>)
          /\ Advance(t)
     ELSE /\ broadcast_packet(t)
          /\ pc' = [pc EXCEPT ![t] = "count"]
          /\ cur' \in {0, t}
          /\ UNCHANGED idx
  /\ UNCHANGED <<is_processing, processed_count, is_capturing, capture_pending,
                 batch, dirty, packets, features, faults, metric_count,
                 detected, stopSeen, alert_notes, owed>>
  /\ UNCHANGED alertVars
  /\ UNCHANGED <<detVars, extVars, itemVars>>

\* line 106
Count(t) ==
  /\ Resumes(t)
  /\ pc[t] = "count"
  /\ processed_count' = processed_count + 1
  /\ owed' = IF owed = 0 /\ (processed_count + 1) % MetricsEvery = 0
             THEN processed_count + 1 ELSE owed
  /\ Log(t, <<Event("counted", idx[t])>>)
  /\ Advance(t)
  /\ UNCHANGED <<is_processing, is_capturing, capture_pending, batch, dirty,
                 packets, features, faults, metric_count, detected, stopSeen,
                 alert_notes>>
  /\ UNCHANGED alertVars
  /\ UNCHANGED <<detVars, extVars, itemVars>>

\* _update_metrics: a failure inside it is caught and logged
UpdateMetrics(fails) ==
  /\ fails => faults < MaxFaults
  /\ faults' = IF fails THEN faults + 1 ELSE faults
  /\ metric_count' = IF fails THEN metric_count ELSE Min(metric_count + 1, 2)

\* line 115: the metric update runs when the count is a multiple of 100
MetricsDue(count) == count % MetricsEvery = 0

\* lines 111-118: the end-of-batch commit, the periodic metric update and
\* the sleep between batches
CommitFails(t) ==
  /\ faults < MaxFaults
  /\ faults' = faults + 1
  /\ Exit(t)
  /\ UNCHANGED <<features, metric_count, owed>>

CommitDone(t) ==
  /\ features' = Committed(t)
  /\ dirty' = [dirty EXCEPT ![t] = {}]
  /\ IF MetricsDue(processed_count)
     THEN \E fails \in BOOLEAN :
            /\ UpdateMetrics(fails)
            /\ owed' = IF fails THEN owed ELSE 0
     ELSE UNCHANGED <<faults, metric_count, owed>>
  /\ pc' = [pc EXCEPT ![t] = "sleep_yield"]
  /\ cur' = 0
  /\ UNCHANGED is_processing

Commit(t) ==
  /\ cur = t
  /\ pc[t] = "commit"
  /\ \/ CommitFails(t)
     \/ CommitDone(t)
  /\ UNCHANGED <<processed_count, is_capturing, capture_pending, batch, idx,
                 packets, detected, trace, stopSeen, alert_notes>>
  /\ UNCHANGED alertVars
  /\ UNCHANGED <<detVars, extVars, itemVars>>

(* ------------------- the signature engine (ml/models/hybrid.py) ------- *)
\* scores are floats in [0, 1]; the model keeps them as integers in units of
\* 1/Scale, a unit in which the values below and their products by 0.6, 0.4
\* and 0.5, their halves and their means over up to three oracles are exact
Scale == 30000
Pct(n) == n * (Scale \div 100)

SIGNATURE_CONFIDENCE_THRESHOLD == Pct(70)
HYBRID_FUSION_THRESHOLD == Pct(65)

\* a numeric field of a packet dict: {} is None, {n} the number n
Val(x) == CHOOSE n \in x : TRUE

\* the outcome of a Python expression: "true", "false" or "raise"
Bool(b) == IF b THEN "true" ELSE "false"
\* a and b, where b is evaluated only if a is true
AndThen(a, b) == IF a = "true" THEN b ELSE a
\* x < n and x > n raise TypeError on None
LessThan(x, n) == IF x = {} THEN "raise" ELSE Bool(Val(x) < n)
GreaterThan(x, n) == IF x = {} THEN "raise" ELSE Bool(Val(x) > n)
\* x in range(lo, hi + 1), x in [...]: False on None
InRange(x, lo, hi) == Bool(x # {} /\ Val(x) >= lo /\ Val(x) <= hi)
OneOf(x, S) == Bool(x # {} /\ Val(x) \in S)

\* SignatureEngine.signatures, in registration (dict insertion) order
Signatures ==
  << [name |-> "port_scan", severity |-> "high", confidence |-> Pct(80)],
     [name |-> "syn_flood", severity |-> "high", confidence |-> Pct(85)],
     [name |-> "large_packet", severity |-> "medium", confidence |-> Pct(60)],
     [name |-> "suspicious_port", severity |-> "medium", confidence |-> Pct(70)],
     [name |-> "icmp_flood", severity |-> "medium", confidence |-> Pct(65)] >>

\* sig_config['pattern'](packet_features) of the named rule.  pkt.get(key)
\* of a missing key is None; pkt.get('packet_size', 0) of a missing key is 0
Pattern(name, pkt) ==
  CASE name = "port_scan" ->
         AndThen(InRange(pkt.dst_port, 1, 1023), LessThan(pkt.packet_size, 100))
    [] name = "syn_flood" ->
         AndThen(Bool(pkt.tcp_flags = "S"), LessThan(pkt.packet_size, 100))
    [] name = "large_packet" ->
         GreaterThan(pkt.packet_size, 1500)
    [] name = "suspicious_port" ->
         OneOf(pkt.dst_port, {4444, 31337, 12345, 54321})
    [] name = "icmp_flood" ->
         AndThen(Bool(pkt.protocol = "ICMP"), LessThan(pkt.packet_size, 100))

NoMatch == [matched |-> FALSE, confidence |-> 0, name |-> "None"]
Match(k) ==
  [matched |-> TRUE, confidence |-> Signatures[k].confidence,
   name |-> Signatures[k].name]

RECURSIVE LastMatchFrom(_, _, _)
LastMatchFrom(pkt, k, found) ==
  IF k > Len(Signatures) THEN found
  ELSE IF Pattern(Signatures[k].name, pkt) = "true"
       THEN LastMatchFrom(pkt, k + 1, Match(k))
       ELSE LastMatchFrom(pkt, k + 1, found)

check_signatures_last(pkt) == LastMatchFrom(pkt, 1, NoMatch)

\* the for loop of check_signatures from rule k on: the first rule whose
\* pattern is true returns; a pattern that raises is logged and skipped
RECURSIVE CheckFrom(_, _)
CheckFrom(pkt, k) ==
  IF k > Len(Signatures) THEN NoMatch
  ELSE IF Pattern(Signatures[k].name, pkt) = "true" THEN Match(k)
       ELSE CheckFrom(pkt, k + 1)

check_signatures(pkt) == CheckFrom(pkt, 1)

(* ------------------- the fusion engine (ml/models/hybrid.py) ---------- *)
SupModels == <<"random_forest", "xgboost", "lightgbm">>
UnsupModels == <<"isolation_forest", "one_class_svm">>
Range(f) == {f[i] : i \in DOMAIN f}

\* an oracle on one call: not loaded ("missing"), its call raises ("fail"),
\* it returns nothing usable (proba is None, scores is empty: "novalue") or it
\* returns a value ("ok", v: the attack probability, or the normalised
\* anomaly score)
Out(st, v) == [st |-> st, v |-> v]

RECURSIVE SumSeq(_)
SumSeq(q) == IF q = <<>> THEN 0 ELSE Head(q) + SumSeq(Tail(q))
\* np.mean(xs) if xs else 0.0
Mean(q) == IF q = <<>> THEN 0 ELSE SumSeq(q) \div Len(q)
Max(a, b) == IF a > b THEN a ELSE b

ScoresZeroForFailed(models, outs, fv) ==
  IF ~fv THEN <<>>
  ELSE LET loaded == SelectSeq(models, LAMBDA m : outs[m].st # "missing")
       IN  [i \in 1..Len(loaded) |-> outs[loaded[i]].v]

\* ml_scores / anomaly_scores: the values appended by the loop over the
\* loaded models, in order; nothing is run without a feature vector
Scores(models, outs, fv) ==
  IF ~fv THEN <<>>
  ELSE LET ok == SelectSeq(models, LAMBDA m : outs[m].st = "ok")
       IN  [i \in 1..Len(ok) |-> outs[ok[i]].v]

SeverityMediumFrom70(x) ==
  IF x >= Pct(80) THEN "high" ELSE IF x >= Pct(70) THEN "medium" ELSE "low"

\* the severity bands (lines 143-148 and 219-224)
Severity(x) ==
  IF x >= Pct(80) THEN "high" ELSE IF x >= Pct(60) THEN "medium" ELSE "low"

Tier1Strict(sg, sigThr) == sg.matched /\ sg.confidence > sigThr

\* line 134
Tier1(sg, sigThr) == sg.matched /\ sg.confidence >= sigThr

FuseNoFloor(sg, m, a) ==
  LET h0 == (6 * m) \div 10 + (4 * a) \div 10
  IN  IF sg.matched /\ m < Pct(30) THEN (sg.confidence + h0) \div 2
      ELSE IF ~sg.matched /\ m > Pct(70) THEN m
      ELSE h0

FuseNoDampening(sg, m, a) ==
  LET h0 == (6 * m) \div 10 + (4 * a) \div 10
      h1 == IF sg.matched THEN Max(h0, sg.confidence \div 2) ELSE h0
  IN  IF ~sg.matched /\ m > Pct(70) THEN m ELSE h1

\* lines 192-205: the weighted combination, the floor of a low-confidence
\* match and the conflict resolution
Fuse(sg, m, a) ==
  LET h0 == (6 * m) \div 10 + (4 * a) \div 10
      h1 == IF sg.matched THEN Max(h0, sg.confidence \div 2) ELSE h0
  IN  IF sg.matched /\ m < Pct(30) THEN (sg.confidence + h1) \div 2
      ELSE IF ~sg.matched /\ m > Pct(70) THEN m
      ELSE h1

\* lines 119-129
InitialResult ==
  [is_malicious |-> FALSE, threat_score |-> 0, severity |-> "low",
   detection_method |-> "none", signature_match |-> FALSE,
   ml_prediction |-> 0, anomaly_score |-> 0, hybrid_score |-> 0,
   confidence |-> 0]

DecideStrict(res, sg, h, thr) ==
  IF h > thr
  THEN [res EXCEPT !.is_malicious = TRUE,
                   !.detection_method = IF ~sg.matched THEN "ml" ELSE "hybrid",
                   !.severity = Severity(h)]
  ELSE res

\* lines 214-224: the final decision
Decide(res, sg, h, thr) ==
  IF h >= thr
  THEN [res EXCEPT !.is_malicious = TRUE,
                   !.detection_method = IF ~sg.matched THEN "ml" ELSE "hybrid",
                   !.severity = Severity(h)]
  ELSE res

\* detect(packet_features, feature_vector) after check_signatures returned
\* sg; fv: the feature vector is not None
DetectAfter(sg, fv, outs, sigThr, thr) ==
  IF Tier1(sg, sigThr)
  THEN [InitialResult EXCEPT !.is_malicious = TRUE,
                             !.signature_match = TRUE,
                             !.threat_score = sg.confidence,
                             !.detection_method = "signature",
                             !.confidence = sg.confidence,
                             !.severity = Severity(sg.confidence)]
  ELSE LET m == Mean(Scores(SupModels, outs.sup, fv))
           a == Mean(Scores(UnsupModels, outs.unsup, fv))
           h == Fuse(sg, m, a)
           res == [InitialResult EXCEPT !.ml_prediction = m,
                                        !.anomaly_score = a,
                                        !.hybrid_score = h,
                                        !.threat_score = h,
                                        !.signature_match = sg.matched,
                                        !.confidence = h]
       IN  Decide(res, sg, h, thr)

\* the matcher and the oracles that the call runs
InvokedBy(sg, fv, outs, sigThr) ==
  {"signature"} \cup
  (IF Tier1(sg, sigThr) \/ ~fv THEN {}
   ELSE {m \in Range(SupModels) : outs.sup[m].st # "missing"} \cup
        {m \in Range(UnsupModels) : outs.unsup[m].st # "missing"})

(* ------------- detect_packet (app/services/detection_engine.py) ------- *)
\* extract_basic_features: protocol becomes its integer code ("code"), and
\* so does tcp_flags unless the packet dict has no such key ("absent")
extract_basic_features(pkt) ==
  [dst_port |-> pkt.dst_port, packet_size |-> pkt.packet_size,
   protocol |-> "code",
   tcp_flags |-> IF pkt.tcp_flags = "absent" THEN "absent" ELSE "code"]

\* extract_all_features raises on a packet whose protocol is None
\* (_encode_protocol calls protocol.upper())
ExtractionRaises(pkt) == pkt.protocol = "None"

\* lines 43-48
ErrorResult ==
  [is_malicious |-> FALSE, threat_score |-> 0, severity |-> "low",
   error |-> TRUE]

(* ----------------------------- the inputs ----------------------------- *)
SupOutcomes == {Out("missing", 0), Out("fail", 0), Out("novalue", 0),
                Out("ok", Pct(10)), Out("ok", Pct(90))}
UnsupOutcomes == {Out("missing", 0), Out("fail", 0),
                  Out("ok", 0), Out("ok", Pct(80))}
OracleOutcomes ==
  [sup : [Range(SupModels) -> SupOutcomes],
   unsup : [Range(UnsupModels) -> UnsupOutcomes]]
\* without a feature vector no oracle is called
NotCalled ==
  [sup |-> [m \in Range(SupModels) |-> Out("missing", 0)],
   unsup |-> [m \in Range(UnsupModels) |-> Out("missing", 0)]]

\* dicts given to detect directly
FeatureDicts ==
  [dst_port : {{80}, {4444}, {8080}}, packet_size : {{64}, {1501}},
   tcp_flags : {"S", "A"}, protocol : {"TCP"}]
\* dicts given to check_signatures, with None and encoded fields
SignatureDicts ==
  [dst_port : {{}, {0}, {1}, {80}, {1023}, {1024}, {4444}},
   packet_size : {{}, {0}, {99}, {100}, {1500}, {1501}},
   tcp_flags : {"S", "A", "code", "absent"},
   protocol : {"TCP", "ICMP", "code"}]
\* packet dicts given to detect_packet: by the loop from a stored record, by
\* POST /predict from a request (which may carry tcp_flags)
PacketDicts ==
  [src_ip : {1}, dst_ip : {2}, timestamp : {0},
   dst_port : {{80}, {4444}, {8080}}, packet_size : {{64}, {1501}},
   protocol : {"TCP", "ICMP", "None"}, tcp_flags : {"absent", "S"}]
\* results of a matcher replaced by a stub (a rule set of a test)
StubResults ==
  {[matched |-> TRUE, confidence |-> Pct(75), name |-> "custom"],
   [matched |-> TRUE, confidence |-> Pct(50), name |-> "custom"]}
SignatureThresholds == {Pct(70), Pct(80)}
FusionThresholds == {Pct(54), Pct(65), Pct(100)}

(* ----------------------------- the calls ------------------------------ *)
\* detect keeps no state between calls: each behaviour makes one call on a
\* fresh engine
RunDetect(sg, fv, outs) ==
  /\ sig_result' = sg
  /\ oracles' = outs
  /\ result' = DetectAfter(sg, fv, outs, signature_threshold, threshold)
  /\ invoked' = InvokedBy(sg, fv, outs, signature_threshold)

\* signature_engine.check_signatures(packet_features)
CheckSignatures ==
  /\ call = "none"
  /\ \E pkt \in SignatureDicts :
       /\ packet_features' = pkt
       /\ sig_result' = check_signatures(pkt)
  /\ call' = "check_signatures"
  /\ invoked' = {"signature"}
  /\ packet' = <<>>
  /\ oracles' = <<>>
  /\ result' = <<>>
  /\ UNCHANGED <<signature_threshold, threshold>>
  /\ UNCHANGED <<loopVars, alertVars, extVars, itemVars>>

\* hybrid_engine.detect(packet_features, feature_vector)
DetectCall ==
  /\ call = "none"
  /\ \E pkt \in FeatureDicts, fv \in BOOLEAN :
       \E outs \in (IF fv THEN OracleOutcomes ELSE {NotCalled}) :
         /\ packet_features' = pkt
         /\ RunDetect(check_signatures(pkt), fv, outs)
  /\ call' = "detect"
  /\ packet' = <<>>
  /\ UNCHANGED <<signature_threshold, threshold>>
  /\ UNCHANGED <<loopVars, alertVars, extVars, itemVars>>

\* hybrid_engine.detect with the signature matcher replaced by a stub
DetectStubbed ==
  /\ call = "none"
  /\ \E sg \in StubResults, outs \in OracleOutcomes : RunDetect(sg, TRUE, outs)
  /\ call' = "detect_stubbed"
  /\ packet' = <<>>
  /\ packet_features' = <<>>
  /\ UNCHANGED <<signature_threshold, threshold>>
  /\ UNCHANGED <<loopVars, alertVars, extVars, itemVars>>

detect_packet_unguarded(pkt, outs) ==
  /\ packet_features' = extract_basic_features(pkt)
  /\ RunDetect(check_signatures(extract_basic_features(pkt)), TRUE, outs)

\* detection_engine.detect_packet(packet): lines 38-53
detect_packet(pkt, outs) ==
  IF ExtractionRaises(pkt)
  THEN /\ result' = ErrorResult
       /\ invoked' = {}
       /\ packet_features' = <<>>
       /\ sig_result' = <<>>
       /\ oracles' = <<>>
  ELSE /\ packet_features' = extract_basic_features(pkt)
       /\ RunDetect(check_signatures(extract_basic_features(pkt)), TRUE, outs)

DetectPacket ==
  /\ call = "none"
  /\ \E pkt \in PacketDicts :
       \E outs \in (IF ExtractionRaises(pkt) THEN {NotCalled} ELSE OracleOutcomes) :
         /\ packet' = pkt
         /\ detect_packet(pkt, outs)
  /\ call' = "detect_packet"
  /\ UNCHANGED <<signature_threshold, threshold>>
  /\ UNCHANGED <<loopVars, alertVars, extVars, itemVars>>

(* ------ the feature extractor (app/services/feature_extraction.py) ---- *)
\* datetimes are integers in units of half a millisecond
UnitsPerSecond == 2000
\* timedelta(hours=1) of the eviction pass (line 105)
Hour == 3600 * UnitsPerSecond
\* the 0.001 s that replaces a zero duration (line 94)
Epsilon == UnitsPerSecond \div 1000

\* (src_ip, dst_ip, protocol, dst_port), lines 73-78
flow_key(p) == <<p.src_ip, p.dst_ip, p.protocol, p.dst_port>>

DefaultFlowCounted ==
  [packet_count |-> 1, byte_count |-> 0, start_time |-> {}, last_time |-> {},
   packets |-> <<>>]

\* the default factory of flow_stats (lines 19-25); None is {}
DefaultFlow ==
  [packet_count |-> 0, byte_count |-> 0, start_time |-> {}, last_time |-> {},
   packets |-> <<>>]

\* self.flow_stats[flow_key] of the defaultdict: a missing key is created
FlowOf(fs, k) == IF k \in DOMAIN fs THEN fs[k] ELSE DefaultFlow
Put(fs, k, flow) == [x \in DOMAIN fs \cup {k} |-> IF x = k THEN flow ELSE fs[x]]

\* lines 81-89
UpdateFlow(flow, p) ==
  [packet_count |-> flow.packet_count + 1,
   byte_count |-> flow.byte_count + Val(p.packet_size),
   start_time |-> IF flow.start_time = {} THEN {p.timestamp} ELSE flow.start_time,
   last_time |-> {p.timestamp},
   packets |-> Append(flow.packets, p)]

\* lines 92-94: only a duration of exactly zero is replaced
Duration(flow) ==
  LET d == Val(flow.last_time) - Val(flow.start_time)
  IN  IF d = 0 THEN Epsilon ELSE d

\* n / duration per second, rounded towards zero; d is never zero
Rate(n, d) ==
  IF d < 0 THEN 0 - ((n * UnitsPerSecond) \div (0 - d))
  ELSE (n * UnitsPerSecond) \div d

\* lines 96-102
FlowFeatures(flow) ==
  [flow_duration |-> Duration(flow),
   flow_packet_count |-> flow.packet_count,
   flow_byte_count |-> flow.byte_count,
   flow_packets_per_second |-> Rate(flow.packet_count, Duration(flow)),
   flow_bytes_per_second |-> Rate(flow.byte_count, Duration(flow))]

\* _cleanup_old_flows(hours=1) when datetime.now() is clk
cleanup_old_flows(fs, clk) ==
  LET old == {k \in DOMAIN fs :
                fs[k].last_time # {} /\ Val(fs[k].last_time) < clk - Hour}
  IN  [k \in DOMAIN fs \ old |-> fs[k]]

\* extract_flow_features(packet): the flow table afterwards and the features
extract_flow_features(fs, p, clk) ==
  LET flow == UpdateFlow(FlowOf(fs, flow_key(p)), p)
  IN  [flow_stats |-> cleanup_old_flows(Put(fs, flow_key(p), flow), clk),
       features |-> FlowFeatures(flow)]

MinOf(S) == CHOOSE x \in S : \A y \in S : x <= y
MaxOf(S) == CHOOSE x \in S : \A y \in S : x >= y

\* extract_statistical_features(packet_window) on a non-empty window, without
\* std_packet_size and port_entropy; the mean is rounded down
extract_statistical_features(window) ==
  LET sizes == [i \in 1..Len(window) |-> Val(window[i].packet_size)]
      ports == {Val(window[i].dst_port) :
                  i \in {j \in 1..Len(window) : window[j].dst_port \notin {{}, {0}}}}
  IN  [mean_packet_size |-> Mean(sizes),
       min_packet_size |-> MinOf(Range(sizes)),
       max_packet_size |-> MaxOf(Range(sizes)),
       packet_count |-> Len(window),
       unique_dst_ports |-> Cardinality(ports)]

AppendWindowUnbounded(buf, p, size) == Append(buf, p)

\* lines 115-117
AppendWindow(buf, p, size) ==
  IF Len(buf) + 1 > size THEN Tail(Append(buf, p)) ELSE Append(buf, p)

\* FeatureExtractionService(window_size) as constructed (lines 17-25)
NewExtractor == [packet_buffer |-> <<>>, flow_stats |-> <<>>]

\* extract_all_features(packet) on an extractor ex when datetime.now() is
\* clk, for a packet on which extract_basic_features does not raise: the
\* extractor afterwards and all_features (the returned array holds its
\* numeric values in key order)
extract_all_features(ex, p, clk) ==
  LET buf == AppendWindow(ex.packet_buffer, p, FEATURE_WINDOW_SIZE)
      ff == extract_flow_features(ex.flow_stats, p, clk)
  IN  [packet_buffer |-> buf,
       flow_stats |-> ff.flow_stats,
       features |-> ff.features @@ extract_statistical_features(buf)
                                @@ extract_basic_features(p)]

reset_window_only(ex) == [ex EXCEPT !.packet_buffer = <<>>]

\* reset(): lines 201-202
reset(ex) == [packet_buffer |-> <<>>, flow_stats |-> <<>>]

\* packet timestamps and wall-clock readings: equal, half a millisecond
\* apart, an hour apart and more
Stamps == {0, 1, Hour}
Clocks == {0, Hour, Hour + 1}
\* packet dicts given to the extractor: two flows, which differ in dst_port
\* (None for a record without ports)
ExtractPackets ==
  [src_ip : {1}, dst_ip : {2}, protocol : {"TCP"},
   dst_port : {{}, {80}}, packet_size : {{60}, {120}},
   tcp_flags : {"absent"}, timestamp : Stamps]
\* a packet whose protocol is None
NoProtocolPacket ==
  [src_ip |-> 1, dst_ip |-> 2, protocol |-> "None", dst_port |-> {80},
   packet_size |-> {60}, tcp_flags |-> "absent", timestamp |-> 0]

Extractor == [packet_buffer |-> packet_buffer, flow_stats |-> flow_stats]

\* the gap-free run of a flow after packet p: its packets while every two
\* consecutive ones are less than the retention window apart
RunAfter(r, p) ==
  LET k == flow_key(p)
      gap == IF p.timestamp >= r[k].last THEN p.timestamp - r[k].last
             ELSE r[k].last - p.timestamp
  IN  IF k \notin DOMAIN r
      THEN [count |-> 1, bytes |-> Val(p.packet_size), last |-> p.timestamp,
            ok |-> TRUE]
      ELSE [count |-> r[k].count + 1, bytes |-> r[k].bytes + Val(p.packet_size),
            last |-> p.timestamp, ok |-> r[k].ok /\ gap < Hour]

\* feature_extractor.extract_all_features(packet)
ExtractRaises ==
  /\ op' = "raised"
  /\ feature_vector' = <<>>
  /\ UNCHANGED <<packet_buffer, flow_stats, extracted, evicted, run, fresh>>

ExtractReturns(p) ==
  LET r == extract_all_features(Extractor, p, clock)
      k == flow_key(p)
  IN  /\ Len(extracted) < MaxExtracts
      /\ packet_buffer' = r.packet_buffer
      /\ flow_stats' = r.flow_stats
      /\ feature_vector' = r.features
      /\ extracted' = Append(extracted, p)
      /\ evicted' = evicted \cup ((DOMAIN flow_stats \cup {k}) \ DOMAIN r.flow_stats)
      /\ run' = Put(run, k, RunAfter(run, p))
      /\ fresh' = IF fresh.made
                  THEN [made |-> TRUE] @@ extract_all_features(fresh, p, clock)
                  ELSE fresh
      /\ op' = "extract"

Extract ==
  /\ \/ \E p \in ExtractPackets : ExtractReturns(p)
     \/ ExtractionRaises(NoProtocolPacket) /\ ExtractRaises
  /\ UNCHANGED clock
  /\ UNCHANGED <<loopVars, alertVars, detVars, itemVars>>

\* feature_extractor.reset(), once per behaviour
Reset ==
  /\ ~fresh.made
  /\ extracted # <<>>
  /\ packet_buffer' = reset(Extractor).packet_buffer
  /\ flow_stats' = reset(Extractor).flow_stats
  /\ fresh' = [made |-> TRUE] @@ NewExtractor
  /\ extracted' = <<>>
  /\ run' = <<>>
  /\ feature_vector' = <<>>
  /\ op' = "reset"
  /\ UNCHANGED <<clock, evicted>>
  /\ UNCHANGED <<loopVars, alertVars, detVars, itemVars>>

\* the wall clock advances
AdvanceClock ==
  /\ \E c \in Clocks : c > clock /\ clock' = c
  /\ op' = "tick"
  /\ UNCHANGED <<packet_buffer, flow_stats, feature_vector, extracted, evicted,
                 run, fresh>>
  /\ UNCHANGED <<loopVars, alertVars, detVars, itemVars>>

(* ------- one packet through the body of the for loop (lines 49-109) --- *)
\* d.get(key, default)
Get(d, key, default) == IF key \in DOMAIN d THEN d[key] ELSE default

\* AlertManager._generate_description: the template chosen and the values
\* the f-string puts in it ("": the template has no such value)
generate_description(res) ==
  LET method == Get(res, "detection_method", "unknown")
      severity == Get(res, "severity", "low")
      score == Get(res, "threat_score", 0)
  IN  IF Get(res, "signature_match", FALSE)
      THEN [template |-> "Signature-based detection",
            sig_name |-> Get(res, "signature_name", "unknown signature"),
            score |-> score, severity |-> ""]
      ELSE IF method = "ml"
      THEN [template |-> "ML-based detection: Anomaly detected",
            sig_name |-> "", score |-> score, severity |-> severity]
      ELSE IF method = "hybrid"
      THEN [template |-> "Hybrid detection: Combined signature and ML detection",
            sig_name |-> "", score |-> score, severity |-> ""]
      ELSE [template |-> "Network anomaly detected",
            sig_name |-> "", score |-> score, severity |-> severity]

\* AlertManager._determine_alert_type
determine_alert_type(res) ==
  IF Get(res, "signature_match", FALSE) THEN "known_attack"
  ELSE IF Get(res, "anomaly_score", 0) > Pct(70) THEN "zero_day"
  ELSE "suspicious"

\* the Alert built by create_alert (lines 36-54)
NewAlert(res) ==
  [created |-> TRUE,
   severity |-> Get(res, "severity", "low"),
   alert_type |-> determine_alert_type(res),
   description |-> generate_description(res),
   threat_score |-> Get(res, "threat_score", 0),
   signature_match |-> Get(res, "signature_match", FALSE),
   detection_method |-> Get(res, "detection_method", "unknown")]

\* the dict given to broadcast_packet (lines 92-104)
PacketData(pkt, res) ==
  [sent |-> TRUE,
   dst_port |-> pkt.dst_port,
   protocol |-> pkt.protocol,
   packet_size |-> pkt.packet_size,
   is_intrusion |-> IF Get(res, "is_malicious", FALSE) THEN 1 ELSE 0,
   scan_type |-> Get(res, "attack_type", "Normal")]

\* packet dicts built by the loop: a stored record has no tcp_flags
LoopPackets == {p \in PacketDicts : p.tcp_flags = "absent"}
\* oracle outcomes in which the models of a kind agree
ItemOutcomes ==
  {o \in OracleOutcomes :
     /\ \A m, n \in Range(SupModels) : o.sup[m] = o.sup[n]
     /\ \A m, n \in Range(UnsupModels) : o.unsup[m] = o.unsup[n]}

\* the body of the for loop on one packet, on a processor as constructed:
\* detect_packet, extract_all_features, create_alert when the verdict is
\* malicious, broadcast_packet, the count; badraw: raw_data is not JSON
\* (line 103 raises), commitFails: the commit of create_alert raises
ProcessPacket ==
  /\ call = "none"
  /\ op = "none"
  /\ \E pkt \in LoopPackets, src \in Sources, badraw, commitFails \in BOOLEAN :
       \E outs \in (IF ExtractionRaises(pkt) THEN {NotCalled} ELSE ItemOutcomes) :
         /\ packet' = pkt
         /\ detect_packet(pkt, outs)
         /\ IF ExtractionRaises(pkt) THEN ExtractRaises ELSE ExtractReturns(pkt)
         /\ LET res == result'
                malicious == ~ExtractionRaises(pkt) /\ Get(res, "is_malicious", FALSE)
                r == IF malicious THEN CreateAlertResult(src, commitFails)
                     ELSE "none"
                noted == ~ExtractionRaises(pkt) /\ r # "raise" /\ ~badraw
            IN  /\ commitFails => malicious
                /\ IF malicious THEN CreateAlert(src, commitFails)
                   ELSE UNCHANGED alertVars
                /\ alert' = IF r = "alert" THEN NewAlert(res)
                            ELSE [created |-> FALSE]
                /\ packet_note' = IF noted THEN PacketData(pkt, res)
                                  ELSE [sent |-> FALSE]
                /\ processed_count' = IF noted THEN processed_count + 1
                                      ELSE processed_count
                /\ faults' = IF r = "raise" THEN faults + 1 ELSE faults
  /\ call' = "process_packet"
  /\ UNCHANGED <<signature_threshold, threshold, clock>>
  /\ UNCHANGED <<is_processing, is_capturing, capture_pending, pc, batch, idx,
                 dirty, cur, packets, features, metric_count, detected, trace,
                 stopSeen, alert_notes, owed>>

(* --------------------------- the specification ------------------------ *)
\* an empty packets table
EmptyStore ==
  /\ packets = <<>>
  /\ features = <<>>
  /\ detected = <<>>

\* BackgroundProcessor(), AlertManager(), PacketCaptureService(),
\* FeatureExtractionService() as constructed
InitRest ==
  /\ processed_count = 0
  /\ is_capturing = FALSE
  /\ capture_pending = FALSE
  /\ batch = [t \in Tasks |-> <<>>]
  /\ idx = [t \in Tasks |-> 0]
  /\ dirty = [t \in Tasks |-> {}]
  /\ cur = 0
  /\ alert_rate_limiter = <<>>
  /\ alert_count = 0
  /\ now = 0
  /\ faults = 0
  /\ metric_count = 0
  /\ trace = [t \in Tasks |-> <<>>]
  /\ stopSeen = [t \in Tasks |-> FALSE]
  /\ alert_notes = 0
  /\ owed = 0
  /\ calls = [s \in Sources |-> 0]
  /\ packet = <<>>
  /\ packet_features = <<>>
  /\ sig_result = <<>>
  /\ oracles = <<>>
  /\ result = <<>>
  /\ invoked = {}
  /\ call = "none"
  /\ packet_buffer = <<>>
  /\ flow_stats = <<>>
  /\ clock = 0
  /\ feature_vector = <<>>
  /\ extracted = <<>>
  /\ evicted = {}
  /\ run = <<>>
  /\ fresh = [made |-> FALSE]
  /\ op = "none"
  /\ alert = [created |-> FALSE]
  /\ packet_note = [sent |-> FALSE]

\* HybridDetectionEngine() with the default settings
DefaultThresholds ==
  /\ signature_threshold = SIGNATURE_CONFIDENCE_THRESHOLD
  /\ threshold = HYBRID_FUSION_THRESHOLD

Init ==
  /\ is_processing = FALSE
  /\ pc = [t \in Tasks |-> "none"]
  /\ EmptyStore
  /\ InitRest
  /\ DefaultThresholds

ClockTick == Tick /\ UNCHANGED loopVars /\ UNCHANGED <<detVars, extVars, itemVars>>

Next ==
  \/ StartCapture
  \/ CaptureBegin
  \/ StopCapture
  \/ StorePacket
  \/ \E t \in Tasks : LoopTop(t)
  \/ \E t \in Tasks : Item(t)
  \/ \E t \in Tasks : PacketNote(t)
  \/ \E t \in Tasks : Count(t)
  \/ \E t \in Tasks : Commit(t)

\* the loop and its handlers within one wall-clock minute (the minute
\* changes under SpecAlert)
Spec == Init /\ [][Next]_vars

(* ---------------- the limiter on its own: POST /alert ----------------- *)
\* POST /alert: alert_manager.create_alert(db, detection_result)
AlertRequest ==
  /\ \E s \in Sources, commitFails \in BOOLEAN :
       /\ calls[s] < MaxCalls
       /\ CreateAlert(s, commitFails)
  /\ UNCHANGED loopVars
  /\ UNCHANGED <<detVars, extVars, itemVars>>

SpecAlert == Init /\ [][AlertRequest \/ ClockTick]_vars

(* ------------- the loop by whole iterations, a single loop ------------ *)
\* one iteration of the while loop of the only running loop: n packets are
\* fetched (1..100), nfail of them raise before line 106, the others are
\* counted one by one; then the commit, the metric update when due, the sleep
BatchIteration(n, nfail) ==
  LET c2 == processed_count + (n - nfail)
      m == MetricsEvery * ((processed_count \div MetricsEvery) + 1)
      reached == IF owed # 0 THEN owed ELSE IF m <= c2 THEN m ELSE 0
      overtaken == reached # 0 /\ c2 >= reached + MetricsEvery
  IN
  /\ is_processing
  /\ c2 <= MaxCount
  /\ processed_count' = c2
  /\ IF MetricsDue(c2)
     THEN /\ UpdateMetrics(FALSE)
          /\ owed' = IF overtaken THEN reached ELSE 0
     ELSE /\ owed' = reached
          /\ UNCHANGED <<faults, metric_count>>
  /\ UNCHANGED <<is_processing, is_capturing, capture_pending, pc, batch, idx,
                 dirty, cur, packets, features, detected, trace, stopSeen,
                 alert_notes>>
  /\ UNCHANGED alertVars
  /\ UNCHANGED <<detVars, extVars, itemVars>>

\* the loop has been started and is the only one
InitBatch ==
  /\ is_processing = TRUE
  /\ pc = [t \in Tasks |-> IF t = 1 THEN "sleep_yield" ELSE "none"]
  /\ EmptyStore
  /\ InitRest
  /\ DefaultThresholds

BatchNext == \E n \in 1..BatchLimit : \E nfail \in 0..n : BatchIteration(n, nfail)

SpecBatch == InitBatch /\ [][BatchNext]_vars

(* ---------------- the detection engine on its own --------------------- *)
\* an engine constructed with some thresholds (settings)
InitDetect ==
  /\ is_processing = FALSE
  /\ pc = [t \in Tasks |-> "none"]
  /\ EmptyStore
  /\ InitRest
  /\ signature_threshold \in SignatureThresholds
  /\ threshold \in FusionThresholds

SpecDetect == InitDetect /\ [][DetectCall \/ DetectStubbed \/ DetectPacket]_vars

SpecSig == Init /\ [][CheckSignatures]_vars

(* ---------------- the feature extractor on its own -------------------- *)
SpecExtract == Init /\ [][Extract \/ Reset \/ AdvanceClock]_vars

(* ------------- one packet through the loop body on its own ------------ *)
SpecItem == Init /\ [][ProcessPacket]_vars

(* ----------- the loop by whole iterations on a backlog ---------------- *)
\* a packets table of n unprocessed records on which extract_all_features
\* raises (protocol NULL), stored before one well-formed unprocessed record
Backlog(n) ==
  [i \in 1..(n + 1) |->
     [kind |-> IF i <= n THEN "malformed" ELSE "ok", src |-> 1]]

\* one iteration of the while loop of the only running loop (lines 37-118):
\* the query, the for loop over the rows, the commit, the metric update when
\* due, the sleep.  A malformed record raises at line 65 before its features
\* are set; a badraw record raises at line 103, after; an ok record is
\* notified and counted.
Iteration(commitFails) ==
  \E b \in {Unprocessed} :
  \E attached \in {{i \in Range(b) : packets[i].kind # "malformed"}} :
  \E noted \in {{i \in Range(b) : packets[i].kind = "ok"}} :
  \E c2 \in {processed_count + Cardinality(noted)} :
  /\ is_processing
  /\ cur = 0
  /\ pc[1] = "sleep_yield"
  /\ b # <<>>
  /\ commitFails => faults < MaxFaults
  /\ batch' = [batch EXCEPT ![1] = b]
  /\ idx' = [idx EXCEPT ![1] = Len(b)]
  /\ detected' = [i \in Ids |-> IF i \in Range(b) THEN Min(detected[i] + 1, 2)
                                ELSE detected[i]]
  /\ trace' = [trace EXCEPT ![1] =
                 [j \in 1..Len(b) |->
                    Event(IF b[j] \in noted THEN "packet" ELSE "failed", j)]]
  /\ processed_count' = c2
  /\ IF commitFails
     THEN /\ faults' = faults + 1
          /\ Exit(1)
          /\ UNCHANGED <<features, metric_count>>
     ELSE /\ features' = [i \in Ids |-> features[i] \/ i \in attached]
          /\ IF MetricsDue(c2) THEN UpdateMetrics(FALSE)
             ELSE UNCHANGED <<faults, metric_count>>
          /\ UNCHANGED <<is_processing, pc, dirty, cur>>
  /\ UNCHANGED <<is_capturing, capture_pending, packets, stopSeen, alert_notes,
                 owed>>
  /\ UNCHANGED <<alertVars, detVars, extVars, itemVars>>

\* the loop is running, alone, on a store with a backlog
InitProgress ==
  /\ is_processing = TRUE
  /\ pc = [t \in Tasks |-> IF t = 1 THEN "sleep_yield" ELSE "none"]
  /\ \E n \in 0..MaxBacklog :
       /\ packets = Backlog(n)
       /\ features = [i \in 1..(n + 1) |-> FALSE]
       /\ detected = [i \in 1..(n + 1) |-> 0]
  /\ InitRest
  /\ DefaultThresholds

ProgressNext == \E commitFails \in BOOLEAN : Iteration(commitFails)

\* asyncio.sleep returns: the loop goes on making iterations; a data-store
\* failure may happen, none has to
SpecProgress ==
  InitProgress /\ [][ProgressNext]_vars /\ WF_vars(Iteration(FALSE))

(* ------------------------------ the claims ---------------------------- *)
Has(t, e, i) == \E k \in 1..Len(trace[t]) : trace[t][k] = Event(e, i)
Failed(t, i) == Has(t, "failed", i)
\* the items of the batch the for loop has left behind
Completed(t) ==
  IF pc[t] \in {"item", "packet_note", "count"}
  THEN 1..(idx[t] - 1) ELSE 1..Len(batch[t])

LiveLoops == {t \in Tasks : Alive(t)}

\* C1: at any time at most one process_packets loop is scheduled or alive,
\* whatever the interleaving of start and stop requests
C1_SingleLoop == Cardinality(LiveLoops) <= 1

\* the step is t's flag check at the top of the loop, the first one after a
\* stop_processing() call
ChecksFlagAfterStop(t) == Alive(t) /\ stopSeen[t] /\ ~stopSeen'[t]

\* C2: after stop_processing() the loop exits at the top of its next
\* iteration and leaves is_processing false, wherever the stop arrived
C2_StopEndsLoop ==
  [][\A t \in Tasks :
       ChecksFlagAfterStop(t) => (pc'[t] = "done" /\ ~is_processing')]_vars

\* C3: a loop ends only after stop_processing() was called: no failure of
\* the fetch, the commit or the metric update ends it
C3_ExitOnlyOnStop ==
  [][\A t \in Tasks : (Alive(t) /\ pc'[t] = "done") => stopSeen[t]]_vars

\* C4: every stored packet is passed to detect_packet at most once
C4_ConsumedOnce == \A p \in Ids : detected[p] <= 1

\* the step ends with a per-item failure of task t
FailsItem(t) ==
  /\ Len(trace'[t]) > Len(trace[t])
  /\ trace'[t][Len(trace'[t])].ev = "failed"

C6_FetchOrder ==
  \A t \in Tasks : \A k \in 1..Len(trace[t]) :
    /\ trace[t][k].i \in 1..Len(batch[t])
    /\ \A j \in 1..(k - 1) : trace[t][j].i <= trace[t][k].i
    /\ \A i \in 1..(trace[t][k].i - 1) :
         Failed(t, i) \/ \E j \in 1..(k - 1) : trace[t][j] = Event("packet", i)

C6_Witness ==
  \E t \in Tasks : Has(t, "packet", 1) /\ Has(t, "alert", 2) /\ Has(t, "packet", 2)

\* C7: an alert notification follows a malicious verdict and a persisted
\* alert of the same packet, never a rate-limited one, and the alert
\* notifications published never outnumber the alerts persisted
C7_AlertOnlyIfPersisted ==
  /\ alert_notes <= alert_count
  /\ \A t \in Tasks : \A k \in 1..Len(trace[t]) :
       trace[t][k].ev = "alert" =>
         /\ \E j \in 1..(k - 1) : trace[t][j] = Event("detect_mal", trace[t][k].i)
         /\ \E j \in 1..(k - 1) : trace[t][j] = Event("persisted", trace[t][k].i)
         /\ ~Has(t, "limited", trace[t][k].i)

C7_Witness ==
  /\ alert_notes >= 1
  /\ \E t \in Tasks : \E i \in 1..Len(batch[t]) :
       Has(t, "limited", i) /\ Has(t, "packet", i) /\ ~Has(t, "alert", i)

\* C8: each packet the loop has handled without a failure has exactly one
\* packet notification, whatever the verdict, and an alert notification of
\* the same packet precedes it
C8_PacketNoteAlways ==
  \A t \in Tasks : \A i \in Completed(t) :
    Failed(t, i) \/
      /\ Cardinality({k \in 1..Len(trace[t]) : trace[t][k] = Event("packet", i)}) = 1
      /\ \A a, k \in 1..Len(trace[t]) :
           (trace[t][a] = Event("alert", i) /\ trace[t][k] = Event("packet", i))
             => a < k

C8_Witness ==
  \E t \in Tasks :
    /\ pc[t] = "commit"
    /\ Has(t, "alert", 1) /\ Has(t, "packet", 1)
    /\ Has(t, "detect_ben", 2) /\ Has(t, "packet", 2)

\* C9: once processed_count has reached a positive multiple of 100, a metric
\* update is published before the count reaches the next multiple
C9_MetricEveryK == owed = 0 \/ processed_count < owed + MetricsEvery

\* C10: each bucket's count stays within 0..N and, in the current minute,
\* equals min(calls, N); the first N calls of a minute pass the limiter, and
\* a later call returns None, persists nothing and leaves the bucket as is
C10_RateLimit ==
  /\ [](\A s \in DOMAIN alert_rate_limiter :
          /\ alert_rate_limiter[s].count \in 0..MAX_ALERTS_PER_MINUTE
          /\ alert_rate_limiter[s].minute = now =>
               alert_rate_limiter[s].count = Min(calls[s], MAX_ALERTS_PER_MINUTE))
  /\ [][\A s \in Sources : calls'[s] = calls[s] + 1 =>
           IF calls[s] < MAX_ALERTS_PER_MINUTE
           THEN /\ CreateAlertResult(s, FALSE) = "alert"
                /\ alert_rate_limiter'[s].count = calls[s] + 1
           ELSE /\ CreateAlertResult(s, FALSE) = "none"
                /\ CreateAlertResult(s, TRUE) = "none"
                /\ alert_count' = alert_count
                /\ alert_rate_limiter' = alert_rate_limiter]_vars

C10_Witness ==
  \E s \in Sources :
    /\ calls[s] = MAX_ALERTS_PER_MINUTE + 2
    /\ s \in DOMAIN alert_rate_limiter
    /\ alert_rate_limiter[s].count = MAX_ALERTS_PER_MINUTE
    /\ alert_count = MAX_ALERTS_PER_MINUTE

\* C11: a create_alert call that finds the bucket of its source in another
\* minute than the current one passes the limiter, whatever the old count,
\* and leaves the bucket at the current minute with count 1
C11_MinuteReset ==
  [][\A s \in Sources :
       (/\ calls'[s] = calls[s] + 1
        /\ s \in DOMAIN alert_rate_limiter
        /\ alert_rate_limiter[s].minute # now)
       => /\ CreateAlertResult(s, FALSE) = "alert"
          /\ alert_rate_limiter'[s] = [minute |-> now, count |-> 1]]_vars

\* a source exhausted its bucket in minute 0 and got an alert in minute 1
C11_Witness ==
  /\ now = 1
  /\ alert_count = MAX_ALERTS_PER_MINUTE * MaxSources + 1
  /\ \E s \in Sources :
       /\ DOMAIN alert_rate_limiter = Sources
       /\ alert_rate_limiter[s] = [minute |-> 1, count |-> 1]
       /\ \A u \in Sources \ {s} : alert_rate_limiter[u].minute = 0

\* a detect call has returned a result of the fusion engine
Detected == call \in {"detect", "detect_stubbed", "detect_packet"}
              /\ "hybrid_score" \in DOMAIN result
\* ... through tier 1, through tier 2
GatePassed == sig_result.matched /\ sig_result.confidence >= signature_threshold
ViaTier1 == Detected /\ GatePassed
ViaTier2 == Detected /\ ~GatePassed

C13_Fusion ==
  ViaTier2 =>
    LET matched == sig_result.matched
        s == sig_result.confidence
        m == result.ml_prediction
        a == result.anomaly_score
        h0 == (6 * m) \div 10 + (4 * a) \div 10
        h1 == IF matched /\ h0 < s \div 2 THEN s \div 2 ELSE h0
        h == IF matched /\ m < Pct(30) THEN (s + h1) \div 2
             ELSE IF ~matched /\ m > Pct(70) THEN m
             ELSE h1
    IN  /\ result.hybrid_score = h
        /\ result.threat_score = h
        /\ result.confidence = h

\* a low-confidence match whose floor applies, dampened because m < 0.3
C13_Witness ==
  /\ ViaTier2
  /\ sig_result.matched
  /\ result.ml_prediction = Pct(10)
  /\ result.anomaly_score = 0
  /\ 2 * result.hybrid_score = sig_result.confidence + sig_result.confidence \div 2

\* the scenario of C14: gate 0.8, a match at 0.75, supervised mean 0.1
C14_Scenario ==
  /\ call = "detect_stubbed"
  /\ signature_threshold = Pct(80)
  /\ sig_result.confidence = Pct(75)
  /\ result.ml_prediction = Pct(10)

\* C14 as stated: in the scenario hybrid_score = (0.75 + (0.6*0.1 + 0.4*a))/2
\* for every anomaly score a
C14_AsStated ==
  C14_Scenario =>
    result.hybrid_score =
      (Pct(75) + ((6 * Pct(10)) \div 10 + (4 * result.anomaly_score) \div 10)) \div 2

\* C14 amended: in the scenario hybrid_score =
\* (0.75 + max(0.6*0.1 + 0.4*a, 0.5*0.75))/2
C14_Dampened ==
  C14_Scenario =>
    LET h0 == (6 * Pct(10)) \div 10 + (4 * result.anomaly_score) \div 10
        floor == Pct(75) \div 2
    IN  result.hybrid_score = (Pct(75) + (IF h0 > floor THEN h0 ELSE floor)) \div 2

\* the scenario with an anomaly score for which the floor applies
C14_Witness ==
  /\ C14_Scenario
  /\ result.anomaly_score = Pct(40)
  /\ 2 * result.hybrid_score = Pct(75) + Pct(75) \div 2

\* C15: a packet to port 4444 matching only suspicious_port (0.7), gate 0.7,
\* a supervised oracle at 0.9, anomaly 0.0, fusion threshold 0.65: detect
\* yields hybrid_score 0.54 and is not malicious
C15_EndToEnd ==
  (/\ Detected
   /\ call \in {"detect", "detect_packet"}
   /\ packet_features.dst_port = {4444}
   /\ sig_result.name = "suspicious_port"
   /\ signature_threshold = Pct(70)
   /\ threshold = Pct(65)
   /\ oracles.sup["random_forest"] = Out("ok", Pct(90))
   /\ oracles.sup["xgboost"].st # "ok"
   /\ oracles.sup["lightgbm"].st # "ok"
   /\ oracles.unsup["isolation_forest"] = Out("ok", 0)
   /\ oracles.unsup["one_class_svm"].st # "ok")
  => /\ result.hybrid_score = Pct(54)
     /\ ~result.is_malicious

\* C16 as stated: in tier 2 is_malicious iff hybrid_score >= threshold, and
\* the method is 'hybrid' whenever a signature matched, else 'ml' if
\* malicious, else 'none'
C16_AsStated ==
  ViaTier2 =>
    /\ result.is_malicious <=> result.hybrid_score >= threshold
    /\ result.detection_method =
         (IF sig_result.matched THEN "hybrid"
          ELSE IF result.is_malicious THEN "ml" ELSE "none")

\* C16 amended: in tier 2 is_malicious iff hybrid_score >= threshold, and the
\* method is 'none' whenever the result is not malicious, else 'hybrid' if a
\* signature matched, else 'ml'
C16_Decision ==
  ViaTier2 =>
    /\ result.is_malicious <=> result.hybrid_score >= threshold
    /\ result.detection_method =
         (IF ~result.is_malicious THEN "none"
          ELSE IF sig_result.matched THEN "hybrid" ELSE "ml")

\* a low-confidence match whose fused score stays below the threshold
C16_Witness ==
  /\ ViaTier2
  /\ sig_result.matched
  /\ result.signature_match
  /\ result.hybrid_score < threshold
  /\ result.detection_method = "none"

\* C17 as stated: in tier 2 the severity of every result is banded from
\* hybrid_score (>= 0.8 high, >= 0.6 medium, else low)
C17_AsStated ==
  ViaTier2 =>
    result.severity =
      (IF result.hybrid_score >= Pct(80) THEN "high"
       ELSE IF result.hybrid_score >= Pct(60) THEN "medium" ELSE "low")

\* C17 amended: in tier 2 the severity is banded from hybrid_score when
\* hybrid_score >= the fusion threshold, and is 'low' below the threshold
C17_Banded ==
  ViaTier2 =>
    result.severity =
      (IF result.hybrid_score < threshold THEN "low"
       ELSE IF result.hybrid_score >= Pct(80) THEN "high"
       ELSE IF result.hybrid_score >= Pct(60) THEN "medium" ELSE "low")

\* a score in the high band below the fusion threshold
C17_Witness ==
  /\ ViaTier2
  /\ result.hybrid_score >= Pct(80)
  /\ result.hybrid_score < threshold
  /\ result.severity = "low"

RECURSIVE SumOver(_, _)
SumOver(outs, S) ==
  IF S = {} THEN 0
  ELSE LET m == CHOOSE x \in S : TRUE IN outs[m].v + SumOver(outs, S \ {m})
\* the mean of the values of the oracles that returned one (0.0 when none did)
MeanReturned(outs) ==
  LET R == {m \in DOMAIN outs : outs[m].st = "ok"}
  IN  IF R = {} THEN 0 ELSE SumOver(outs, R) \div Cardinality(R)

C19_ExtractionFailure ==
  (call = "detect_packet" /\ packet.protocol = "None") =>
    /\ DOMAIN result = {"is_malicious", "threat_score", "severity", "error"}
    /\ ~result.is_malicious
    /\ result.threat_score = 0
    /\ result.severity = "low"
    /\ invoked = {}

C19_Witness ==
  /\ call = "detect_packet"
  /\ packet.protocol = "None"
  /\ packet.dst_port = {4444}
  /\ "error" \in DOMAIN result

\* rule k holds of the dict last checked
Holds(k) == Pattern(Signatures[k].name, packet_features) = "true"
Raises(k) == Pattern(Signatures[k].name, packet_features) = "raise"

\* C20: the rules are port_scan, syn_flood, large_packet, suspicious_port,
\* icmp_flood in this order; check_signatures returns the name and
\* confidence of the first rule that holds (a rule that raises does not
\* hold), (False, 0.0, None) when none holds; a packet with destination port
\* in 1..1023 and size < 100 is a port_scan match
C20_FirstMatch ==
  call = "check_signatures" =>
    /\ [k \in 1..Len(Signatures) |-> Signatures[k].name] =
         <<"port_scan", "syn_flood", "large_packet", "suspicious_port",
           "icmp_flood">>
    /\ IF \E k \in 1..Len(Signatures) : Holds(k)
       THEN \E k \in 1..Len(Signatures) :
              /\ Holds(k)
              /\ \A j \in 1..(k - 1) : ~Holds(j)
              /\ sig_result = [matched |-> TRUE,
                               confidence |-> Signatures[k].confidence,
                               name |-> Signatures[k].name]
       ELSE sig_result = [matched |-> FALSE, confidence |-> 0, name |-> "None"]
    /\ (/\ packet_features.dst_port # {}
        /\ packet_features.packet_size # {}
        /\ \E d \in 1..1023 : packet_features.dst_port = {d}
        /\ \E z \in 0..99 : packet_features.packet_size = {z})
       => sig_result.name = "port_scan"

\* two rules raise and a later rule matches
C20_Witness ==
  /\ call = "check_signatures"
  /\ Raises(2)
  /\ Raises(3)
  /\ sig_result.name = "suspicious_port"

(* ---------------------- the feature extractor ------------------------- *)
Last(q) == q[Len(q)]
\* the call that just returned was extract_all_features on packet Last(extracted)
Extracted == op = "extract"

\* C21: an evicted flow is not resurrected.  A flow key that is absent from
\* the flow table enters it only in an extract call for a packet with that
\* exact key, and then as a fresh entry: packet count 1, byte count the size
\* of that packet, first seen at that packet's timestamp.  Extract calls for
\* other flows, resets and clock readings leave an absent key absent.
C21_NoResurrection ==
  [][\A k \in (DOMAIN flow_stats') \ (DOMAIN flow_stats) :
       /\ op' = "extract"
       /\ flow_key(Last(extracted')) = k
       /\ flow_stats'[k].packet_count = 1
       /\ flow_stats'[k].byte_count = Val(Last(extracted').packet_size)
       /\ flow_stats'[k].start_time = {Last(extracted').timestamp}]_vars

\* a flow that the eviction pass removed earlier is in the table again, as a
\* fresh entry, next to another flow
C21_Witness ==
  /\ Extracted
  /\ \E k \in evicted :
       /\ k \in DOMAIN flow_stats
       /\ flow_stats[k].packet_count = 1
       /\ flow_key(Last(extracted)) = k
       /\ \E j \in DOMAIN flow_stats : j # k

\* C22: reset() clears all extractor state.  Right after reset() the window
\* and the flow table are empty, and every later extract call returns the
\* same features, and leaves the same window and flow table, as the same
\* calls on an extractor constructed at the time of the reset.
C22_ResetClears ==
  /\ op = "reset" => packet_buffer = <<>> /\ DOMAIN flow_stats = {}
  /\ (fresh.made /\ Extracted) =>
       /\ feature_vector = fresh.features
       /\ packet_buffer = fresh.packet_buffer
       /\ flow_stats = fresh.flow_stats

\* two packets of one flow were extracted after a reset
C22_Witness ==
  /\ fresh.made
  /\ Extracted
  /\ Len(extracted) = 2
  /\ feature_vector.flow_packet_count = 2

\* C25: the recent-packet window is a bounded FIFO.  After every extract
\* call its length is min(packets extracted since construction or reset,
\* window_size), it is the most recent packets in arrival order with the
\* current packet last, and the window statistics returned by the call are
\* those of that window.
C25_WindowFifo ==
  Extracted =>
    LET n == Len(extracted)
        w == Min(n, FEATURE_WINDOW_SIZE)
        stats == extract_statistical_features(SubSeq(extracted, n - w + 1, n))
    IN  /\ Len(packet_buffer) = w
        /\ packet_buffer = SubSeq(extracted, n - w + 1, n)
        /\ Last(packet_buffer) = Last(extracted)
        /\ \A f \in DOMAIN stats : feature_vector[f] = stats[f]

\* the window is full and its oldest packet, of another size than the
\* packets kept, has been evicted
C25_Witness ==
  /\ Extracted
  /\ Len(extracted) > FEATURE_WINDOW_SIZE
  /\ Len(packet_buffer) = FEATURE_WINDOW_SIZE
  /\ \A i \in 1..Len(packet_buffer) :
       packet_buffer[i].packet_size # extracted[1].packet_size

\* C26: FlowState lifecycle.  When every two consecutive packets of a flow
\* are less than the retention window apart by their own timestamps, the
\* k-th packet of the flow is reported with flow_packet_count = k and
\* flow_byte_count = the sum of the sizes of its first k packets, whatever
\* the wall clock reads.
C26_FlowLifecycle ==
  Extracted =>
    LET r == run[flow_key(Last(extracted))]
    IN  r.ok => /\ feature_vector.flow_packet_count = r.count
                /\ feature_vector.flow_byte_count = r.bytes

\* C27: flow table boundedness.  After every extract call no flow in the
\* table was last seen more than the retention window before the clock
\* reading of the call, and what a retained flow holds does not grow when a
\* further packet of the flow is extracted.
C27_Bounded ==
  /\ [](Extracted =>
          \A k \in DOMAIN flow_stats :
            Val(flow_stats[k].last_time) >= clock - Hour)
  /\ [][\A k \in (DOMAIN flow_stats) \cap (DOMAIN flow_stats') :
          Len(flow_stats'[k].packets) <= Len(flow_stats[k].packets)]_vars

\* C28: the duration used for the rates is at least the epsilon of 0.001 s
\* and both rates are non-negative, for every order of packet timestamps.
C28_EpsilonFloor ==
  Extracted =>
    /\ feature_vector.flow_duration >= Epsilon
    /\ feature_vector.flow_packets_per_second >= 0
    /\ feature_vector.flow_bytes_per_second >= 0

(* ------------------ alerts and packet notifications ------------------- *)
\* C23: the description of every alert created from a detection result in
\* which a signature matched (method 'signature' or 'hybrid') contains the
\* name of the rule that matched.
C23_RuleNamed ==
  (call = "process_packet" /\ alert.created /\ alert.signature_match) =>
    alert.description.sig_name = sig_result.name

\* C24: in every per-packet notification is_intrusion is 1 exactly when the
\* verdict is malicious, and scan_type is the verdict's detection method when
\* it is malicious and "Normal" otherwise.
C24_PacketNote ==
  packet_note.sent =>
    /\ packet_note.is_intrusion = (IF result.is_malicious THEN 1 ELSE 0)
    /\ packet_note.scan_type =
         (IF result.is_malicious THEN result.detection_method ELSE "Normal")

\* C29: through detect_packet the rules see the packet's own field values.
\* For a packet of size < 100 whose destination port is neither in 1..1023
\* nor a suspicious port (rules that come earlier): with flag string 'S' the
\* match reported is syn_flood; with protocol ICMP and no flags it is
\* icmp_flood.
C29_OwnFields ==
  (/\ call = "detect_packet"
   /\ ~ExtractionRaises(packet)
   /\ LessThan(packet.packet_size, 100) = "true"
   /\ InRange(packet.dst_port, 1, 1023) = "false"
   /\ OneOf(packet.dst_port, {4444, 31337, 12345, 54321}) = "false") =>
    /\ packet.tcp_flags = "S" =>
         sig_result.matched /\ sig_result.name = "syn_flood"
    /\ (packet.protocol = "ICMP" /\ packet.tcp_flags = "absent") =>
         sig_result.matched /\ sig_result.name = "icmp_flood"

(* ------------------------------ progress ------------------------------ *)
\* the loop has published the packet notification of record i in its last batch
Notified(i) ==
  \E j \in 1..Len(batch[1]) : batch[1][j] = i /\ Has(1, "packet", j)

\* the stored records whose own processing does not fail
WellFormed == {i \in Ids : packets[i].kind = "ok"}
\* the loop runs and one of them is unprocessed
Pending == is_processing /\ \E i \in WellFormed : ~features[i]
Processed == \A i \in WellFormed : features[i] /\ Notified(i)

\* C30: progress under partial failure.  While the loop runs, every stored
\* unprocessed record whose own processing does not fail eventually has its
\* features attached and its packet notification published, however many
\* other pending records fail on every attempt.
C30_Progress == Pending ~> (~is_processing \/ Processed)

=============================================================================
